---- MODULE Spec2Model ----
(***************************************************************************)
(* Novel Quest reader: the paginator and the reading-position reconciler.  *)
(*                                                                         *)
(* The repository holds three revisions of the App component:              *)
(*   "sync"   src/src/App.jsx lines 1-802     (remote lastPosition record) *)
(*   "local"  src/src/App.jsx lines 803-1747  (localStorage-backed)        *)
(*   "reader" src/unnamed/part_000            (isInitialLoad one-shot)     *)
(* A string is modelled as a sequence of one-character strings.            *)
(***************************************************************************)
EXTENDS Integers, Sequences, FiniteSets, TLC

\* ------------------------------------------------------------------ bounds
MaxLen == 5
MaxPageSize == 3
MaxEvents == 3
MaxCalls == 1
MaxWait == 1000
MaxNow == 3000
MaxAiCalls == 2

\* ------------------------------------------------------- program constants
WORDS_PER_PAGE == 275

\* ---------------------------------------------------------------- strings
\* the characters matched by the regular expression class \s
WS == {" ", "\n"}
Letters == {"a", "b"}
Chars == Letters \cup WS

Min(a, b) == IF a < b THEN a ELSE b

\* String.prototype.split(/\s+/) on s[lo..hi], lo <= hi: the pieces between
\* maximal whitespace runs, empty pieces at the two ends included.
RECURSIVE splitRange(_, _, _)
splitRange(s, lo, hi) ==
  IF lo = hi
  THEN IF s[lo] \in WS THEN << <<>>, <<>> >> ELSE << <<s[lo]>> >>
  ELSE LET mid == (lo + hi) \div 2
           L == splitRange(s, lo, mid)
           R == splitRange(s, mid + 1, hi)
       IN IF s[mid] \in WS /\ s[mid + 1] \in WS
          THEN SubSeq(L, 1, Len(L) - 1) \o Tail(R)
          ELSE SubSeq(L, 1, Len(L) - 1) \o << L[Len(L)] \o Head(R) >> \o Tail(R)

\* text.split(/\s+/); the empty string splits into one empty piece
split(s) == IF s = <<>> THEN << <<>> >> ELSE splitRange(s, 1, Len(s))

\* .filter(Boolean) on an array of strings: the empty string is falsy
filterBoolean(arr) == SelectSeq(arr, LAMBDA w : w # <<>>)

\* Array.prototype.slice(i, j) with 0 <= i <= j, zero-based, j exclusive
slice(arr, i, j) == SubSeq(arr, i + 1, Min(j, Len(arr)))

\* Array.prototype.join(" ") on arr[lo..hi]
RECURSIVE joinRange(_, _, _)
joinRange(arr, lo, hi) ==
  IF lo > hi THEN <<>>
  ELSE IF lo = hi THEN arr[lo]
  ELSE LET mid == (lo + hi) \div 2
       IN joinRange(arr, lo, mid) \o <<" ">> \o joinRange(arr, mid + 1, hi)

join(arr) == joinRange(arr, 1, Len(arr))

\* "No manuscript loaded. Use the Library to upload a PDF or start writing."
NO_MANUSCRIPT ==
  << "N","o"," ","m","a","n","u","s","c","r","i","p","t"," ",
     "l","o","a","d","e","d","."," ","U","s","e"," ","t","h","e"," ",
     "L","i","b","r","a","r","y"," ","t","o"," ","u","p","l","o","a","d"," ",
     "a"," ","P","D","F"," ","o","r"," ","s","t","a","r","t"," ",
     "w","r","i","t","i","n","g","." >>

\* "(Vault empty. Sign in and upload a manuscript to begin analysis.)"
VAULT_EMPTY_SYNC ==
  << "(","V","a","u","l","t"," ","e","m","p","t","y","."," ",
     "S","i","g","n"," ","i","n"," ","a","n","d"," ","u","p","l","o","a","d"," ",
     "a"," ","m","a","n","u","s","c","r","i","p","t"," ","t","o"," ",
     "b","e","g","i","n"," ","a","n","a","l","y","s","i","s",".",")" >>

\* "(Vault empty. Sign in to upload document.)"
VAULT_EMPTY ==
  << "(","V","a","u","l","t"," ","e","m","p","t","y","."," ",
     "S","i","g","n"," ","i","n"," ","t","o"," ","u","p","l","o","a","d"," ",
     "d","o","c","u","m","e","n","t",".",")" >>

\* -------------------------------------------------------------- paginator
\* the for loop of getPages: i advances by n, one page pushed per round
RECURSIVE pageLoop(_, _, _, _)
pageLoop(words, n, i, result) ==
  IF i < Len(words)
  THEN pageLoop(words, n, i + n, Append(result, join(slice(words, i, i + n))))
  ELSE result

\* getPages with the end of the slice not offset by i: slice(i, n)
getPages_sliceEnd(t, n, placeholder) ==
  LET words == filterBoolean(split(t))
      RECURSIVE loop(_, _)
      loop(i, result) ==
        IF i < Len(words)
        THEN loop(i + n, Append(result, join(slice(words, i, n))))
        ELSE result
      result == loop(0, <<>>)
  IN IF Len(result) > 0 THEN result ELSE << placeholder >>

\* getPages returning the empty array for a text without words
getPages_noPlaceholder(t, n, placeholder) ==
  pageLoop(filterBoolean(split(t)), n, 0, <<>>)

\* getPages without .filter(Boolean)
getPages_noFilter(t, n, placeholder) ==
  LET result == pageLoop(split(t), n, 0, <<>>)
  IN IF Len(result) > 0 THEN result ELSE << placeholder >>

\* getPages / the pages memo, with the page size and the placeholder of the
\* revision as parameters
getPages(t, n, placeholder) ==
  LET words == filterBoolean(split(t))
      result == pageLoop(words, n, 0, <<>>)
  IN IF Len(result) > 0 THEN result ELSE << placeholder >>

\* =========================================================================
\* Documents, users and timers
\* =========================================================================
None == "none"
Uid == "u1"
Anon == "anon"
UNTITLED == "Untitled Manuscript"

\* w one-letter words separated by single blanks
Manuscript(w) == [i \in 1..(2 * w - 1) |-> IF i % 2 = 1 THEN "a" ELSE " "]

\* the documents of the user's vault: "A" and "B" are stored before the
\* session starts, "U" is the PDF the user uploads, "W" the imported web page
DocIds == {"A", "B", "U", "W"}
StoredDocs == {"A", "B"}

CONTENT_A == Manuscript(2 * WORDS_PER_PAGE + 1)
CONTENT_B == Manuscript(WORDS_PER_PAGE + 1)
CONTENT_U == << "a", " ", "b", "\n" >>
CONTENT_W == << "b" >>

Content(d) ==
  CASE d = "A" -> CONTENT_A [] d = "B" -> CONTENT_B
    [] d = "U" -> CONTENT_U [] d = "W" -> CONTENT_W

Name(d) ==
  CASE d = "A" -> "A.pdf" [] d = "B" -> "B.pdf"
    [] d = "U" -> "U.pdf" [] d = "W" -> "Web Page"


\* the placeholder page of each revision
Placeholder(r) ==
  CASE r = "sync" -> VAULT_EMPTY_SYNC [] r = "local" -> VAULT_EMPTY
    [] r = "reader" -> NO_MANUSCRIPT [] OTHER -> VAULT_EMPTY

\* pages.length for the texts a session can hold, computed once per text
PAGES_A == Len(getPages(CONTENT_A, WORDS_PER_PAGE, VAULT_EMPTY))
PAGES_B == Len(getPages(CONTENT_B, WORDS_PER_PAGE, VAULT_EMPTY))
PAGES_U == Len(getPages(CONTENT_U, WORDS_PER_PAGE, VAULT_EMPTY))
PAGES_W == Len(getPages(CONTENT_W, WORDS_PER_PAGE, VAULT_EMPTY))
PAGES_EMPTY == Len(getPages(<<>>, WORDS_PER_PAGE, VAULT_EMPTY))

pagesLength(t) ==
  CASE t = <<>> -> PAGES_EMPTY
    [] t = CONTENT_A -> PAGES_A [] t = CONTENT_B -> PAGES_B
    [] t = CONTENT_U -> PAGES_U [] t = CONTENT_W -> PAGES_W
    [] OTHER -> Len(getPages(t, WORDS_PER_PAGE, VAULT_EMPTY))

\* delays of the setTimeout calls, in milliseconds
AUTOSAVE_DELAY == 2000
RESTORE_SCROLL_DELAY == 800
LOAD_SCROLL_DELAY == 100
RESUME_SCROLL_DELAY == 200
AUTO_SCROLL_DELAY == 300

\* the threshold option of the IntersectionObserver, in percent
THRESHOLD == 50

\* the intersection ratios, in percent, that an entry can report
Ratios == {0, 49, 50, 100}

\* entry.isIntersecting with every ratio above 0 counted as intersecting
isIntersectingAt_any(ratio) == ratio > 0

\* entry.isIntersecting of an observer with the one threshold: the ratio of
\* the entry has reached the threshold
isIntersectingAt(ratio) == ratio >= THRESHOLD

\* a remote position record; exists = FALSE stands for an absent document
NoPos == [exists |-> FALSE, docId |-> None, page |-> 0]
Pos(d, p) == [exists |-> TRUE, docId |-> d, page |-> p]

\* a pending setTimeout; cur marks the scroll timers of the latest load
Timer(k, ms, d, p) == [kind |-> k, left |-> ms, docId |-> d, page |-> p, cur |-> TRUE]

\* an asynchronous call in flight
Call(o, d, c, p) == [op |-> o, docId |-> d, cap |-> c, page |-> p]
NoCall == Call("none", None, None, 0)

\* a snapshot delivered to the lastPosition listener: the record, and whether
\* it is the stored record shown again after a local write was rejected
Snap(r, rb) == [data |-> r, rollback |-> rb]

\* ---------------------------------------------------------- localStorage
Digits == << "0", "1", "2", "3", "4", "5", "6", "7", "8", "9" >>

\* String(n) and n.toString() of a non-negative integer
RECURSIVE toString(_)
toString(n) ==
  IF n < 10 THEN << Digits[n + 1] >> ELSE Append(toString(n \div 10), Digits[(n % 10) + 1])

digitValue(c) == CHOOSE d \in 0..9 : Digits[d + 1] = c

\* Number(s) || 0 of a stored string of decimal digits; Number("") is 0
RECURSIVE Number(_)
Number(s) ==
  IF s = <<>> THEN 0
  ELSE 10 * Number(SubSeq(s, 1, Len(s) - 1)) + digitValue(s[Len(s)])

\* the keys text, doc id, doc name and page of the profile; has = FALSE is
\* a profile in which the application never ran, docId = None a removed key
NoStorage == [has |-> FALSE, text |-> <<>>, docId |-> None, docName |-> "", page |-> <<>>]

\* localStorage.setItem of the four keys
setItems(t, d, n, p) ==
  [has |-> TRUE, text |-> t, docId |-> IF d = None THEN "" ELSE d, docName |-> n,
   page |-> toString(p)]

\* the initial values of text, currentDocId, currentDocName and currentPage
storedText(st) == IF st.has THEN st.text ELSE <<>>
storedDocId(st) == IF st.has /\ st.docId \notin {None, ""} THEN st.docId ELSE None
storedDocName(st) == IF st.has /\ st.docName # "" THEN st.docName ELSE UNTITLED
storedPage(st) == IF st.has THEN Number(st.page) ELSE 0

\* =========================================================================
\* State
\* =========================================================================
VARIABLES
  rev,          \* which revision of App runs; "paginator" exercises getPages alone
  pgText,       \* paginator exercise: the text argument
  pgSize,       \* paginator exercise: the page size
  pgPages,      \* paginator exercise: the pages returned, <<>> before the call
  pgDone,       \* paginator exercise: getPages has returned
  user,         \* useState user: None or a uid
  isAuthLoading,
  text,
  currentDocId,
  currentDocName,
  currentPage,
  sources,      \* useState sources: the ids of the listed documents
  lastPosition, \* useState lastPosition ("sync")
  isRestoring,  \* useState isRestoring ("sync"), isRestoringSession ("local")
  authReady,    \* the first onAuthStateChanged callback has run
  dbSources,    \* the sources collection of the user in the document store
  dbPos,        \* the settings/lastPosition document in the document store
  posListener,  \* the closure of the lastPosition onSnapshot callback
  posSnaps,     \* snapshots of lastPosition not yet delivered to the callback
  timers,       \* pending setTimeout callbacks, in registration order
  calls,        \* asynchronous calls awaiting their result
  writes,       \* setDoc calls on lastPosition awaiting the store, in issue order
  ls,           \* localStorage of the browser profile ("local", "reader")
  isInitialLoad,\* useRef isInitialLoad ("reader")
  observing,    \* the IntersectionObserver observes the page elements ("reader")
  budget,       \* user and environment events left
  g,            \* history of the run, read by the properties only
  now,          \* Date.now() in ms ("limiter")
  lastAiCall,   \* useState lastAiCall ("limiter")
  nextCallAvailable, \* useState nextCallAvailable ("limiter")
  isAiLoading,  \* useState isAiLoading
  apiKey,       \* GEMINI_API_KEY of the build: "" when not configured
  aiCalls,      \* the callAi invocations, by slot
  aiLog         \* history of the callAi invocations, read by the properties only

pgVars == << pgText, pgSize, pgPages, pgDone >>
uiVars == << user, isAuthLoading, text, currentDocId, currentDocName, currentPage,
             sources, lastPosition, isRestoring, authReady >>
dbVars == << dbSources, dbPos >>
rtVars == << posListener, posSnaps, timers, calls, writes >>
lsVars == << ls, isInitialLoad, observing >>
appVars == << uiVars, dbVars, rtVars, lsVars, budget, g >>

aiVars == << now, lastAiCall, nextCallAvailable, isAiLoading, apiKey, aiCalls, aiLog >>

vars == << rev, pgVars, appVars, aiVars >>

\* no callAi invocation in slot
NoAiCall == [phase |-> "idle", retryCount |-> 0, left |-> 0, sent |-> 0, status |-> 0]

\* nothing sent and nothing returned yet
NoAiLog == [at |-> -1, sent |-> -1, ret |-> "none"]

\* the AI engine before its first call
IdleAi ==
  /\ now = 0
  /\ lastAiCall = 0
  /\ nextCallAvailable = 0
  /\ isAiLoading = FALSE
  /\ apiKey = ""
  /\ aiCalls = <<>>
  /\ aiLog = NoAiLog

\* the state of the component before the first render
IdleApp ==
  /\ user = None
  /\ isAuthLoading = TRUE
  /\ text = <<>>
  /\ currentDocId = None
  /\ currentDocName = UNTITLED
  /\ currentPage = 0
  /\ sources = {}
  /\ lastPosition = NoPos
  /\ isRestoring = TRUE
  /\ authReady = FALSE
  /\ posListener = [active |-> FALSE, isRestoring |-> TRUE, currentDocId |-> None]
  /\ posSnaps = <<>>
  /\ timers = <<>>
  /\ calls = {}
  /\ writes = <<>>
  /\ ls = NoStorage
  /\ isInitialLoad = TRUE
  /\ observing = FALSE

\* a viewport event: the page of the entry and its intersectionRatio in
\* percent
NoEvent == [any |-> FALSE, page |-> 0, ratio |-> 0]
Event(i, r) == [any |-> TRUE, page |-> i, ratio |-> r]

NoHistory ==
  [ change |-> "none", quiet |-> 0, written |-> 0, burst |-> 0,
    lastWrite |-> [docId |-> None, page |-> 0, quiet |-> 0],
    cancelled |-> FALSE, scrolls |-> 0, scrolledTo |-> 0, load |-> "none", target |-> 0,
    pages |-> 1, event |-> NoEvent, rollback |-> NoCall ]

\* ------------------------------------------------- inputs of the paginator
\* every string over Chars of length at most MaxLen
StringsUpTo(n) == UNION { [1..k -> Chars] : k \in 0..n }

\* the long inputs: word counts around the multiples of WORDS_PER_PAGE
LongWordCounts ==
  { WORDS_PER_PAGE - 1, WORDS_PER_PAGE, WORDS_PER_PAGE + 1,
    2 * WORDS_PER_PAGE, 2 * WORDS_PER_PAGE + 1, 700 }

InitPaginator ==
  /\ rev = "paginator"
  /\ IdleAi
  /\ \/ pgText \in StringsUpTo(MaxLen) /\ pgSize \in 1..MaxPageSize
     \/ pgText \in { Manuscript(w) : w \in LongWordCounts } /\ pgSize = WORDS_PER_PAGE
  /\ pgPages = <<>>
  /\ pgDone = FALSE
  /\ IdleApp
  /\ dbSources = {}
  /\ dbPos = NoPos
  /\ budget = 0
  /\ g = NoHistory

\* one call of getPages on the drawn input
Paginate ==
  /\ rev = "paginator"
  /\ ~pgDone
  /\ pgPages' = getPages(pgText, pgSize, VAULT_EMPTY)
  /\ pgDone' = TRUE
  /\ UNCHANGED << rev, pgText, pgSize, appVars, aiVars >>

NextPaginator == Paginate

SpecPaginator == InitPaginator /\ [][NextPaginator]_vars

\* =========================================================================
\* Revision "sync" (src/src/App.jsx lines 123-802)
\* =========================================================================
numPages == pagesLength(text)

\* a step of this revision; the paginator inputs are not involved
inSync == rev = "sync" /\ UNCHANGED << rev, pgVars, lsVars, aiVars >>

\* the reader and the sidebar are rendered unless the loading screen is
rendered == ~(isAuthLoading /\ isRestoring)

saveTimers(tm) == SelectSeq(tm, LAMBDA t : t.kind = "save")
otherTimers(tm) == SelectSeq(tm, LAMBDA t : t.kind # "save")
isScroll(t) == t.kind \in {"scrollRestore", "scrollLoad", "scrollResume", "scrollAuto"}

\* the dependency array of the Position Auto-save effect
autoSaveDeps == << currentPage, currentDocId, user, isRestoring, currentDocName >>

\* Position Auto-save effect without its cleanup: the old timer is kept
autoSaveEffect_noClear(tm) ==
  IF autoSaveDeps' = autoSaveDeps THEN tm
  ELSE IF user' = None \/ currentDocId' = None \/ isRestoring' THEN tm
  ELSE Append(tm, Timer("save", AUTOSAVE_DELAY, currentDocId', currentPage'))

\* Position Auto-save effect whose cleanup is skipped when the document changed
autoSaveEffect_keepOnSwitch(tm) ==
  IF autoSaveDeps' = autoSaveDeps THEN tm
  ELSE LET kept == IF currentDocId' # currentDocId THEN tm ELSE otherTimers(tm)
       IN IF user' = None \/ currentDocId' = None \/ isRestoring' THEN kept
          ELSE Append(kept, Timer("save", AUTOSAVE_DELAY, currentDocId', currentPage'))

\* the auto-save effect without isRestoring in its early return
autoSaveEffect_whileRestoring(tm) ==
  IF autoSaveDeps' = autoSaveDeps THEN tm
  ELSE IF user' = None \/ currentDocId' = None THEN otherTimers(tm)
  ELSE Append(otherTimers(tm), Timer("save", AUTOSAVE_DELAY, currentDocId', currentPage'))

\* Position Auto-save effect after a render: when a dependency changed the
\* cleanup clears the pending timer, and a new one is set if a user is signed
\* in, a document is loaded and the session is not restoring
autoSaveEffect(tm) ==
  IF autoSaveDeps' = autoSaveDeps THEN tm
  ELSE IF user' = None \/ currentDocId' = None \/ isRestoring' THEN otherTimers(tm)
  ELSE Append(otherTimers(tm), Timer("save", AUTOSAVE_DELAY, currentDocId', currentPage'))

\* Firestore Sync effect after a render: on a change of user the listener is
\* removed and, for a signed-in user, a new one subscribed whose callback
\* closes over isRestoring and currentDocId of that render
syncListener ==
  IF user' = user THEN posListener
  ELSE IF user' = None THEN [posListener EXCEPT !.active = FALSE]
  ELSE [active |-> TRUE, isRestoring |-> isRestoring', currentDocId |-> currentDocId']

syncSnaps(snaps) ==
  IF user' = user THEN snaps
  ELSE IF user' = None THEN <<>>
  ELSE << Snap(dbPos, FALSE) >>

NoLoad == [kind |-> "none", target |-> 0]
Load(k, p) == [kind |-> k, target |-> p]

\* the scroll timers of earlier loads
stale(tm) == [i \in 1..Len(tm) |-> IF isScroll(tm[i]) THEN [tm[i] EXCEPT !.cur = FALSE] ELSE tm[i]]

\* history kept across a render
history(tm, ld) ==
  LET pageOnly == currentPage' # currentPage
                  /\ << currentDocId, user, isRestoring, currentDocName >>'
                       = << currentDocId, user, isRestoring, currentDocName >>
      pending == saveTimers(tm) # <<>>
      h0 == [g EXCEPT !.rollback = IF @ \in calls' THEN @ ELSE NoCall]
      h1 == IF autoSaveDeps' = autoSaveDeps THEN h0
            ELSE [h0 EXCEPT
                    !.change = IF pageOnly THEN "page" ELSE "other",
                    !.quiet = IF currentPage' # currentPage THEN 0 ELSE @,
                    !.written = 0,
                    !.burst = IF ~pageOnly THEN 0
                              ELSE IF g.change = "page" /\ g.written = 0 /\ pending
                                   THEN Min(@ + 1, 2) ELSE 1,
                    !.cancelled = IF currentDocId' = currentDocId THEN @
                                  ELSE pending /\ currentDocId # None /\ currentDocId' # None]
  IN IF ld.kind = "none" THEN h1
     ELSE [h1 EXCEPT !.load = ld.kind, !.target = ld.target, !.scrolls = 0, !.scrolledTo = 0,
                     !.pages = pagesLength(text')]

\* the effects that follow the render of a handler's state changes; added
\* are the timers the handler set, snaps the snapshots left undelivered
SyncCommit(added, snaps, ld) ==
  /\ posListener' = syncListener
  /\ posSnaps' = syncSnaps(snaps)
  /\ timers' = autoSaveEffect((IF ld.kind = "none" THEN timers ELSE stale(timers)) \o added)
  /\ g' = history(timers, ld)

InitSync ==
  /\ rev = "sync"
  /\ IdleAi
  /\ pgText = <<>> /\ pgSize = WORDS_PER_PAGE /\ pgPages = <<>> /\ pgDone = FALSE
  /\ IdleApp
  /\ dbSources = StoredDocs
  /\ dbPos \in { NoPos, Pos("A", 1), Pos("B", 2), Pos("U", 1) }
  /\ budget = MaxEvents
  /\ g = NoHistory

\* onAuthStateChanged, first callback: the persisted user or null
AuthInit(u) ==
  /\ inSync /\ ~authReady
  /\ authReady' = TRUE
  /\ user' = u
  /\ isAuthLoading' = FALSE
  /\ UNCHANGED << text, currentDocId, currentDocName, currentPage, sources,
                  lastPosition, isRestoring, dbVars, calls, writes, budget >>
  /\ SyncCommit(<<>>, posSnaps, NoLoad)

\* handleSignInGoogle / handleSignInGuest: the sign-in succeeds and
\* onAuthStateChanged(u) runs; the loading flag is set and cleared again
handleSignIn ==
  /\ inSync /\ authReady /\ rendered /\ user = None /\ budget > 0
  /\ user' = Uid
  /\ isAuthLoading' = FALSE
  /\ budget' = budget - 1
  /\ UNCHANGED << text, currentDocId, currentDocName, currentPage, sources,
                  lastPosition, isRestoring, authReady, dbVars, calls, writes >>
  /\ SyncCommit(<<>>, posSnaps, NoLoad)

\* handleSignOut: signOut succeeds, onAuthStateChanged(null) runs and the
\* handler clears the session
handleSignOut ==
  /\ inSync /\ rendered /\ user # None /\ budget > 0
  /\ user' = None
  /\ isAuthLoading' = FALSE
  /\ sources' = {}
  /\ text' = <<>>
  /\ currentDocId' = None
  /\ budget' = budget - 1
  /\ UNCHANGED << currentDocName, currentPage, lastPosition, isRestoring, authReady,
                  dbVars, calls, writes >>
  /\ SyncCommit(<<>>, posSnaps, NoLoad)

\* onSnapshot(sourcesRef): the listed documents follow the collection
SourcesSnapshot ==
  /\ inSync /\ user # None /\ sources # dbSources
  /\ sources' = dbSources
  /\ UNCHANGED << user, isAuthLoading, text, currentDocId, currentDocName, currentPage,
                  lastPosition, isRestoring, authReady, dbVars, calls, writes, budget >>
  /\ SyncCommit(<<>>, posSnaps, NoLoad)

\* onSnapshot(posRef): the callback reads isRestoring and currentDocId from
\* the render that subscribed it
PosSnapshot ==
  /\ inSync /\ posListener.active /\ posSnaps # <<>>
  /\ LET data == Head(posSnaps).data
         rollback == Head(posSnaps).rollback
         restores == data.exists /\ posListener.isRestoring /\ data.docId # None
                       /\ posListener.currentDocId = None
         c == Call("getDoc", data.docId, None, data.page)
     IN /\ (restores /\ ~rollback) => budget > 0
        /\ budget' = IF restores /\ ~rollback THEN budget - 1 ELSE budget
        /\ lastPosition' = IF data.exists THEN data ELSE lastPosition
        /\ calls' = IF restores THEN calls \cup { c } ELSE calls
        /\ isRestoring' = IF data.exists THEN isRestoring ELSE FALSE
        /\ UNCHANGED << user, isAuthLoading, text, currentDocId, currentDocName,
                        currentPage, sources, authReady, dbVars, writes >>
        /\ posListener' = syncListener
        /\ posSnaps' = syncSnaps(Tail(posSnaps))
        /\ timers' = autoSaveEffect(timers)
        /\ g' = [history(timers, NoLoad) EXCEPT
                  !.rollback = IF restores /\ rollback /\ c \notin calls THEN c ELSE @]

\* restore(): getDoc settles; the finally block clears isRestoring
RestoreDone(c, ok) ==
  /\ inSync /\ c \in calls /\ c.op = "getDoc"
  /\ calls' = calls \ {c}
  /\ isRestoring' = FALSE
  /\ UNCHANGED << user, isAuthLoading, currentPage, sources, lastPosition, authReady,
                  dbVars, writes, budget >>
  /\ IF ok /\ c.docId \in dbSources
     THEN /\ text' = Content(c.docId)
          /\ currentDocName' = Name(c.docId)
          /\ currentDocId' = c.docId
          /\ SyncCommit(<< Timer("scrollRestore", RESTORE_SCROLL_DELAY, None, c.page) >>,
                        posSnaps, Load("restore", c.page))
     ELSE /\ UNCHANGED << text, currentDocName, currentDocId >>
          /\ SyncCommit(<<>>, posSnaps, NoLoad)

\* the IntersectionObserver callback with one entry for page i
IntersectionCallback(i, ratio) ==
  /\ inSync /\ rendered /\ budget > 0
  /\ i \in 0..(numPages - 1)
  /\ currentPage' = IF isIntersectingAt(ratio) THEN i ELSE currentPage
  /\ budget' = IF currentPage' = currentPage THEN budget ELSE budget - 1
  /\ UNCHANGED << user, isAuthLoading, text, currentDocId, currentDocName, sources,
                  lastPosition, isRestoring, authReady, dbVars, calls, writes >>
  /\ SyncCommit(<<>>, posSnaps, NoLoad)

\* loadFromLibrary(source) for a listed document
loadFromLibrary(d) ==
  /\ inSync /\ rendered /\ budget > 0
  /\ d \in sources
  /\ text' = Content(d)
  /\ currentDocName' = Name(d)
  /\ currentDocId' = d
  /\ budget' = budget - 1
  /\ UNCHANGED << user, isAuthLoading, currentPage, sources, lastPosition, isRestoring,
                  authReady, dbVars, calls, writes >>
  /\ SyncCommit(<< Timer("scrollLoad", LOAD_SCROLL_DELAY, None, 0) >>, posSnaps,
                Load("library", 0))

\* resumeLastPosition: the "Jump Back In" button
resumeLastPosition ==
  /\ inSync /\ rendered /\ budget > 0
  /\ lastPosition.exists /\ lastPosition.docId # None /\ sources # {}
  /\ budget' = budget - 1
  /\ UNCHANGED << user, isAuthLoading, currentPage, sources, lastPosition, isRestoring,
                  authReady, dbVars, calls, writes >>
  /\ IF lastPosition.docId \in sources
     THEN /\ text' = Content(lastPosition.docId)
          /\ currentDocName' = Name(lastPosition.docId)
          /\ currentDocId' = lastPosition.docId
          /\ SyncCommit(<< Timer("scrollLoad", LOAD_SCROLL_DELAY, None, 0),
                           Timer("scrollResume", RESUME_SCROLL_DELAY, None, lastPosition.page) >>,
                        posSnaps, Load("resume", lastPosition.page))
     ELSE /\ UNCHANGED << text, currentDocName, currentDocId >>
          /\ SyncCommit(<<>>, posSnaps, NoLoad)

\* handleFileUpload / handleAddLink up to the first await; d is the document
\* the store will create
startImport(o, d) ==
  /\ inSync /\ rendered /\ user # None /\ budget > 0
  /\ d \notin dbSources
  /\ Cardinality(calls) < MaxCalls
  /\ calls' = calls \cup { Call(o, d, None, 0) }
  /\ budget' = budget - 1
  /\ UNCHANGED << uiVars, dbVars, posListener, posSnaps, timers, writes, g >>

\* addDoc settles: the new document becomes the current one
importDone(c, ok) ==
  /\ inSync /\ c \in calls
  /\ calls' = calls \ {c}
  /\ UNCHANGED << user, isAuthLoading, currentPage, sources, lastPosition, isRestoring,
                  authReady, dbPos, writes, budget >>
  /\ IF ok
     THEN /\ dbSources' = dbSources \cup { c.docId }
          /\ text' = Content(c.docId)
          /\ currentDocName' = Name(c.docId)
          /\ currentDocId' = c.docId
          /\ SyncCommit(<<>>, posSnaps, Load(c.op, 0))
     ELSE /\ UNCHANGED << dbSources, text, currentDocName, currentDocId >>
          /\ SyncCommit(<<>>, posSnaps, NoLoad)

handleFileUpload == startImport("upload", "U")
UploadDone(ok) == \E c \in calls : c.op = "upload" /\ importDone(c, ok)

handleAddLink == startImport("link", "W")
LinkDone(ok) == \E c \in calls : c.op = "link" /\ importDone(c, ok)

\* deleteFromLibrary(e, id) up to the await; the continuation compares id
\* with currentDocId of the render that was clicked
deleteFromLibrary(d) ==
  /\ inSync /\ rendered /\ user # None /\ budget > 0
  /\ d \in sources
  /\ Cardinality(calls) < MaxCalls
  /\ calls' = calls \cup { Call("delete", d, currentDocId, 0) }
  /\ budget' = budget - 1
  /\ UNCHANGED << uiVars, dbVars, posListener, posSnaps, timers, writes, g >>

DeleteDone(c, ok) ==
  /\ inSync /\ c \in calls /\ c.op = "delete"
  /\ calls' = calls \ {c}
  /\ UNCHANGED << user, isAuthLoading, currentPage, sources, lastPosition, isRestoring,
                  authReady, dbPos, writes, budget >>
  /\ dbSources' = IF ok THEN dbSources \ { c.docId } ELSE dbSources
  /\ IF ok /\ c.cap = c.docId
     THEN /\ text' = <<>>
          /\ currentDocName' = UNTITLED
          /\ currentDocId' = None
     ELSE UNCHANGED << text, currentDocName, currentDocId >>
  /\ SyncCommit(<<>>, posSnaps, NoLoad)

\* the first timer that is due, in registration order
dueIndex == CHOOSE i \in 1..Len(timers) :
              timers[i].left = 0 /\ \A j \in 1..(i - 1) : timers[j].left # 0

without(seq, i) == SubSeq(seq, 1, i - 1) \o SubSeq(seq, i + 1, Len(seq))

\* the auto-save timer fires: setDoc(posRef, {docId, page, ...}) is issued and
\* the listener sees the local write at once
SaveTimerFires ==
  /\ inSync
  /\ \E i \in 1..Len(timers) : timers[i].left = 0
  /\ LET t == timers[dueIndex]
     IN /\ t.kind = "save"
        /\ timers' = without(timers, dueIndex)
        /\ writes' = Append(writes, Pos(t.docId, t.page))
        /\ posSnaps' = IF posListener.active
                       THEN Append(posSnaps, Snap(Pos(t.docId, t.page), FALSE))
                       ELSE posSnaps
        /\ g' = [g EXCEPT !.written = Min(@ + 1, 2),
                          !.lastWrite = [docId |-> t.docId, page |-> t.page, quiet |-> g.quiet]]
  /\ UNCHANGED << uiVars, dbVars, posListener, calls, budget >>

\* setDoc settles, in issue order; a rejected write is logged and the
\* listener sees the stored document again
WriteDone(ok) ==
  /\ inSync /\ writes # <<>>
  /\ writes' = Tail(writes)
  /\ dbPos' = IF ok THEN Head(writes) ELSE dbPos
  /\ posSnaps' = IF ~ok /\ posListener.active THEN Append(posSnaps, Snap(dbPos, TRUE))
                 ELSE posSnaps
  /\ UNCHANGED << uiVars, dbSources, posListener, timers, calls, budget, g >>

\* a setTimeout(() => scrollToPage(index)) fires: the scroll command
ScrollTimerFires ==
  /\ rev \in {"sync", "local"}
  /\ \E i \in 1..Len(timers) : timers[i].left = 0
  /\ LET t == timers[dueIndex]
     IN /\ isScroll(t)
        /\ timers' = without(timers, dueIndex)
        /\ g' = IF t.cur THEN [g EXCEPT !.scrolls = @ + 1, !.scrolledTo = t.page] ELSE g
  /\ UNCHANGED << rev, pgVars, aiVars, uiVars, dbVars, posListener, posSnaps, calls,
                  writes,
                  lsVars, budget >>

\* the time until the next timer is due
nextDue == CHOOSE m \in { timers[i].left : i \in 1..Len(timers) } :
             \A i \in 1..Len(timers) : m <= timers[i].left

\* time passes: until the next timer is due, or MaxWait ms if that is sooner
Tick ==
  /\ rev # "paginator"
  /\ timers # <<>>
  /\ nextDue > 0
  /\ LET ms == Min(nextDue, MaxWait)
     IN /\ timers' = [i \in 1..Len(timers) |-> [timers[i] EXCEPT !.left = @ - ms]]
        /\ g' = [g EXCEPT !.quiet = IF rev = "sync" THEN Min(@ + ms, AUTOSAVE_DELAY + 1)
                                    ELSE @]
  /\ UNCHANGED << rev, pgVars, aiVars, uiVars, dbVars, posListener, posSnaps, calls,
                  writes,
                  lsVars, budget >>

NextSync ==
  \/ \E u \in {None, Uid} : AuthInit(u)
  \/ handleSignIn
  \/ handleSignOut
  \/ SourcesSnapshot
  \/ PosSnapshot
  \/ \E c \in calls, ok \in BOOLEAN : RestoreDone(c, ok)
  \/ \E i \in 0..(numPages - 1), r \in Ratios : IntersectionCallback(i, r)
  \/ \E d \in DocIds : loadFromLibrary(d)
  \/ resumeLastPosition
  \/ handleFileUpload
  \/ \E ok \in BOOLEAN : UploadDone(ok)
  \/ handleAddLink
  \/ \E ok \in BOOLEAN : LinkDone(ok)
  \/ \E d \in DocIds : deleteFromLibrary(d)
  \/ \E c \in calls, ok \in BOOLEAN : DeleteDone(c, ok)
  \/ SaveTimerFires
  \/ \E ok \in BOOLEAN : WriteDone(ok)
  \/ ScrollTimerFires
  \/ Tick

SpecSync == InitSync /\ [][NextSync]_vars

\* =========================================================================
\* Revision "local" (src/src/App.jsx lines 803-1747)
\* =========================================================================
\* a step of this revision
inLocal ==
  /\ rev = "local"
  /\ UNCHANGED << rev, pgVars, aiVars, lastPosition, dbPos, posListener, posSnaps, writes,
                  isInitialLoad, observing >>

\* the reader and the sidebar are rendered unless the loading screen is
localRendered == ~(isAuthLoading \/ isRestoring)

\* the save effect with currentPage left out of its dependency array
saveEffect_noPageDep(store) ==
  IF << text, currentDocId, currentDocName >>' = << text, currentDocId, currentDocName >>
  THEN store
  ELSE setItems(text', currentDocId', currentDocName', currentPage')

\* the localStorage save effect after a render; store is localStorage as the
\* handler left it
saveEffect(store) ==
  IF << text, currentDocId, currentDocName, currentPage >>'
       = << text, currentDocId, currentDocName, currentPage >>
  THEN store
  ELSE setItems(text', currentDocId', currentDocName', currentPage')

\* the auto-scroll effect after a render, keyed on pages.length; current says
\* whether the render loaded a document
autoScrollEffect(current) ==
  IF pagesLength(text') = pagesLength(text) THEN <<>>
  ELSE << [Timer("scrollAuto", AUTO_SCROLL_DELAY, None,
                 Min(currentPage', pagesLength(text') - 1)) EXCEPT !.cur = current] >>

\* the RESTORE SESSION effect after a render; cs are the calls in flight
restoreDeps == << user, currentDocId, isAuthLoading, isRestoring >>

restoreEffect(cs) ==
  IF restoreDeps' = restoreDeps \/ isAuthLoading' \/ isRestoring'
     \/ user' = None \/ currentDocId' = None
  THEN cs
  ELSE cs \cup { Call("getDoc", currentDocId', None, 0) }

localHistory(ld) ==
  IF ld.kind = "none" THEN g
  ELSE [g EXCEPT !.load = ld.kind, !.target = ld.target, !.scrolls = 0, !.scrolledTo = 0,
                 !.pages = pagesLength(text')]

\* the effects that follow the render of a handler's state changes
LocalCommit(added, cs, store, ld) ==
  /\ ls' = saveEffect(store)
  /\ calls' = restoreEffect(cs)
  /\ timers' = (IF ld.kind = "none" THEN timers ELSE stale(timers))
                 \o added \o autoScrollEffect(ld.kind # "none")
  /\ g' = localHistory(ld)

\* the first run in a browser profile: the state initialisers find no key,
\* and the effects of the mount have run
InitLocal ==
  /\ rev = "local"
  /\ IdleAi
  /\ pgText = <<>> /\ pgSize = WORDS_PER_PAGE /\ pgPages = <<>> /\ pgDone = FALSE
  /\ user = None /\ isAuthLoading = TRUE /\ authReady = FALSE
  /\ text = storedText(NoStorage)
  /\ currentDocId = storedDocId(NoStorage)
  /\ currentDocName = storedDocName(NoStorage)
  /\ currentPage = storedPage(NoStorage)
  /\ sources = {} /\ lastPosition = NoPos /\ isRestoring = TRUE
  /\ posListener = [active |-> FALSE, isRestoring |-> TRUE, currentDocId |-> None]
  /\ posSnaps = <<>> /\ calls = {} /\ writes = <<>>
  /\ ls = setItems(text, currentDocId, currentDocName, currentPage)
  /\ timers = << [Timer("scrollAuto", AUTO_SCROLL_DELAY, None,
                        Min(currentPage, pagesLength(text) - 1)) EXCEPT !.cur = FALSE] >>
  /\ isInitialLoad = TRUE /\ observing = FALSE
  /\ dbSources = StoredDocs /\ dbPos = NoPos
  /\ budget = MaxEvents
  /\ g = NoHistory

\* the page is opened again: the component mounts with the stored state
localReload ==
  /\ inLocal /\ budget > 0
  /\ user' = None /\ isAuthLoading' = TRUE /\ authReady' = FALSE
  /\ text' = storedText(ls)
  /\ currentDocId' = storedDocId(ls)
  /\ currentDocName' = storedDocName(ls)
  /\ currentPage' = storedPage(ls)
  /\ sources' = {} /\ isRestoring' = TRUE
  /\ calls' = {}
  /\ ls' = setItems(text', currentDocId', currentDocName', currentPage')
  /\ timers' = << [Timer("scrollAuto", AUTO_SCROLL_DELAY, None,
                         Min(currentPage', pagesLength(text') - 1))
                     EXCEPT !.cur = text' # <<>>] >>
  /\ g' = IF text' = <<>> THEN NoHistory
          ELSE [NoHistory EXCEPT !.load = "start", !.pages = pagesLength(text'),
                                 !.target = Min(currentPage', pagesLength(text') - 1)]
  /\ budget' = budget - 1
  /\ UNCHANGED dbSources

\* onAuthStateChanged, first callback: the persisted user or null
localAuth(u) ==
  /\ inLocal /\ ~authReady
  /\ authReady' = TRUE
  /\ user' = u
  /\ isAuthLoading' = FALSE
  /\ isRestoring' = FALSE
  /\ UNCHANGED << text, currentDocId, currentDocName, currentPage, sources, dbSources,
                  budget >>
  /\ LocalCommit(<<>>, calls, ls, NoLoad)

\* handleSignInGoogle / handleSignInGuest with onAuthStateChanged(u)
localSignIn ==
  /\ inLocal /\ authReady /\ localRendered /\ user = None /\ budget > 0
  /\ user' = Uid
  /\ budget' = budget - 1
  /\ UNCHANGED << isAuthLoading, isRestoring, authReady, text, currentDocId,
                  currentDocName, currentPage, sources, dbSources >>
  /\ LocalCommit(<<>>, calls, ls, NoLoad)

\* handleSignOut: the doc id key is removed, text and name are cleared
localSignOut ==
  /\ inLocal /\ localRendered /\ user # None /\ budget > 0
  /\ user' = None
  /\ sources' = {}
  /\ text' = <<>>
  /\ currentDocName' = UNTITLED
  /\ budget' = budget - 1
  /\ UNCHANGED << isAuthLoading, isRestoring, authReady, currentDocId, currentPage,
                  dbSources >>
  /\ LocalCommit(<<>>, calls, [ls EXCEPT !.docId = None], NoLoad)

\* onSnapshot(sourcesRef)
localSources ==
  /\ inLocal /\ user # None /\ sources # dbSources
  /\ sources' = dbSources
  /\ UNCHANGED << user, isAuthLoading, isRestoring, authReady, text, currentDocId,
                  currentDocName, currentPage, dbSources, budget >>
  /\ LocalCommit(<<>>, calls, ls, NoLoad)

\* getDoc(docRef).then / .catch of the RESTORE SESSION effect
localRestoreDone(c, ok) ==
  /\ inLocal /\ c \in calls /\ c.op = "getDoc"
  /\ UNCHANGED << user, isAuthLoading, isRestoring, authReady, currentDocId, currentPage,
                  sources, dbSources, budget >>
  /\ IF ok /\ c.docId \in dbSources
     THEN /\ text' = Content(c.docId)
          /\ currentDocName' = Name(c.docId)
     ELSE UNCHANGED << text, currentDocName >>
  /\ LocalCommit(<<>>, calls \ {c}, ls, NoLoad)

\* the IntersectionObserver callback with one entry for page i
localObserver(i, ratio) ==
  /\ inLocal /\ localRendered /\ budget > 0
  /\ i \in 0..(numPages - 1)
  /\ currentPage' = IF isIntersectingAt(ratio) THEN i ELSE currentPage
  /\ budget' = IF currentPage' = currentPage THEN budget ELSE budget - 1
  /\ UNCHANGED << user, isAuthLoading, isRestoring, authReady, text, currentDocId,
                  currentDocName, sources, dbSources >>
  /\ LocalCommit(<<>>, calls, ls, NoLoad)

\* loadFromLibrary(source) for a listed document
localLoad(d) ==
  /\ inLocal /\ localRendered /\ budget > 0
  /\ d \in sources
  /\ text' = Content(d)
  /\ currentDocName' = Name(d)
  /\ currentDocId' = d
  /\ budget' = budget - 1
  /\ UNCHANGED << user, isAuthLoading, isRestoring, authReady, currentPage, sources,
                  dbSources >>
  /\ LocalCommit(<< Timer("scrollLoad", LOAD_SCROLL_DELAY, None, 0) >>, calls, ls,
                 Load("library", 0))

\* handleFileUpload / handleAddLink up to the first await
localImport(o, d) ==
  /\ inLocal /\ localRendered /\ user # None /\ budget > 0
  /\ d \notin dbSources
  /\ Cardinality(calls) < MaxCalls
  /\ calls' = calls \cup { Call(o, d, None, 0) }
  /\ budget' = budget - 1
  /\ UNCHANGED << uiVars, dbSources, timers, ls, g >>

\* addDoc settles: the new document becomes the current one
localImportDone(c, ok) ==
  /\ inLocal /\ c \in calls /\ c.op \in {"upload", "link"}
  /\ UNCHANGED << user, isAuthLoading, isRestoring, authReady, currentPage, sources,
                  budget >>
  /\ IF ok
     THEN /\ dbSources' = dbSources \cup { c.docId }
          /\ text' = Content(c.docId)
          /\ currentDocName' = Name(c.docId)
          /\ currentDocId' = c.docId
          /\ LocalCommit(<<>>, calls \ {c}, ls, Load(c.op, 0))
     ELSE /\ UNCHANGED << dbSources, text, currentDocName, currentDocId >>
          /\ LocalCommit(<<>>, calls \ {c}, ls, NoLoad)

\* deleteFromLibrary(e, id) up to the await
localDelete(d) ==
  /\ inLocal /\ localRendered /\ user # None /\ budget > 0
  /\ d \in sources
  /\ Cardinality(calls) < MaxCalls
  /\ calls' = calls \cup { Call("delete", d, currentDocId, 0) }
  /\ budget' = budget - 1
  /\ UNCHANGED << uiVars, dbSources, timers, ls, g >>

\* deleteDoc settles: the current document is unloaded if it is the deleted one
localDeleteDone(c, ok) ==
  /\ inLocal /\ c \in calls /\ c.op = "delete"
  /\ UNCHANGED << user, isAuthLoading, isRestoring, authReady, currentPage, sources,
                  budget >>
  /\ dbSources' = IF ok THEN dbSources \ { c.docId } ELSE dbSources
  /\ IF ok /\ c.cap = c.docId
     THEN /\ text' = <<>>
          /\ currentDocName' = UNTITLED
          /\ currentDocId' = None
          /\ LocalCommit(<<>>, calls \ {c}, [ls EXCEPT !.docId = None], NoLoad)
     ELSE /\ UNCHANGED << text, currentDocName, currentDocId >>
          /\ LocalCommit(<<>>, calls \ {c}, ls, NoLoad)

NextLocal ==
  \/ \E u \in {None, Uid} : localAuth(u)
  \/ localReload
  \/ localSignIn
  \/ localSignOut
  \/ localSources
  \/ \E c \in calls, ok \in BOOLEAN : localRestoreDone(c, ok)
  \/ \E i \in 0..(numPages - 1), r \in Ratios : localObserver(i, r)
  \/ \E d \in DocIds : localLoad(d)
  \/ localImport("upload", "U")
  \/ localImport("link", "W")
  \/ \E c \in calls, ok \in BOOLEAN : localImportDone(c, ok)
  \/ \E d \in DocIds : localDelete(d)
  \/ \E c \in calls, ok \in BOOLEAN : localDeleteDone(c, ok)
  \/ ScrollTimerFires
  \/ Tick

SpecLocal == InitLocal /\ [][NextLocal]_vars

\* =========================================================================
\* Revision "reader" (src/unnamed/part_000)
\* =========================================================================
\* a step of this revision
inReader ==
  /\ rev = "reader"
  /\ UNCHANGED << rev, pgVars, aiVars, lastPosition, isRestoring, dbPos, posListener,
                  posSnaps,
                  writes >>

\* the PERSISTENCE SYNC effect after a render
persistEffect ==
  IF << text, currentDocId, currentDocName, currentPage >>'
       = << text, currentDocId, currentDocName, currentPage >>
  THEN ls
  ELSE setItems(text', currentDocId', currentDocName', currentPage')

\* the restore target ignoring the stored page
restoreTarget_zero(st, n) == 0

\* Restore Last Visited Page: the stored page, at most the last page
restoreTarget(st, n) == Min(storedPage(st), n - 1)

\* the effects that follow the render of a handler's state changes: the
\* memoised pages change with the text; then the observer is set up again on
\* the page elements of the render and, if isInitialLoad is set, the restore
\* timer is started
ReaderCommit(ld) ==
  /\ ls' = persistEffect
  /\ observing' = IF text' = text THEN observing ELSE ~isAuthLoading'
  /\ timers' = (IF ld.kind = "none" THEN timers ELSE stale(timers))
                 \o (IF text' # text /\ isInitialLoad'
                     THEN << Timer("scrollRestore", RESTORE_SCROLL_DELAY, None,
                                   restoreTarget(ls', pagesLength(text'))) >>
                     ELSE <<>>)
  /\ g' = localHistory(ld)

\* the first run in a browser profile, after the effects of the mount
InitReader ==
  /\ rev = "reader"
  /\ IdleAi
  /\ pgText = <<>> /\ pgSize = WORDS_PER_PAGE /\ pgPages = <<>> /\ pgDone = FALSE
  /\ user = None /\ isAuthLoading = TRUE /\ authReady = FALSE
  /\ text = storedText(NoStorage)
  /\ currentDocId = storedDocId(NoStorage)
  /\ currentDocName = storedDocName(NoStorage)
  /\ currentPage = storedPage(NoStorage)
  /\ sources = {} /\ lastPosition = NoPos /\ isRestoring = FALSE
  /\ posListener = [active |-> FALSE, isRestoring |-> TRUE, currentDocId |-> None]
  /\ posSnaps = <<>> /\ calls = {} /\ writes = <<>>
  /\ ls = setItems(text, currentDocId, currentDocName, currentPage)
  /\ timers = << [Timer("scrollRestore", RESTORE_SCROLL_DELAY, None,
                        restoreTarget(ls, pagesLength(text))) EXCEPT !.cur = FALSE] >>
  /\ isInitialLoad = TRUE /\ observing = FALSE
  /\ dbSources = StoredDocs /\ dbPos = NoPos
  /\ budget = MaxEvents
  /\ g = NoHistory

\* the page is opened again: the component mounts with the stored state
readerReload ==
  /\ inReader /\ budget > 0
  /\ user' = None /\ isAuthLoading' = TRUE /\ authReady' = FALSE
  /\ text' = storedText(ls)
  /\ currentDocId' = storedDocId(ls)
  /\ currentDocName' = storedDocName(ls)
  /\ currentPage' = storedPage(ls)
  /\ sources' = {}
  /\ calls' = {}
  /\ isInitialLoad' = TRUE
  /\ observing' = FALSE
  /\ ls' = setItems(text', currentDocId', currentDocName', currentPage')
  /\ timers' = << [Timer("scrollRestore", RESTORE_SCROLL_DELAY, None,
                         restoreTarget(ls', pagesLength(text')))
                     EXCEPT !.cur = text' # <<>>] >>
  /\ g' = IF text' = <<>> THEN NoHistory
          ELSE [NoHistory EXCEPT !.load = "start", !.pages = pagesLength(text'),
                                 !.target = restoreTarget(ls', pagesLength(text'))]
  /\ budget' = budget - 1
  /\ UNCHANGED dbSources

\* onAuthStateChanged, first callback: the persisted user, the anonymous
\* user of initAuth, or null when the anonymous sign-in failed
readerAuth(u) ==
  /\ inReader /\ ~authReady
  /\ authReady' = TRUE
  /\ user' = u
  /\ isAuthLoading' = FALSE
  /\ UNCHANGED << text, currentDocId, currentDocName, currentPage, sources, dbSources,
                  calls, isInitialLoad, budget >>
  /\ ReaderCommit(NoLoad)

\* handleGoogleSignIn with onAuthStateChanged(u)
handleGoogleSignIn ==
  /\ inReader /\ authReady /\ user # Uid /\ budget > 0
  /\ user' = Uid
  /\ budget' = budget - 1
  /\ UNCHANGED << isAuthLoading, authReady, text, currentDocId, currentDocName,
                  currentPage, sources, dbSources, calls, isInitialLoad >>
  /\ ReaderCommit(NoLoad)

\* the Sign Out button: signOut(auth) with onAuthStateChanged(null)
readerSignOut ==
  /\ inReader /\ ~isAuthLoading /\ user = Uid /\ budget > 0
  /\ user' = None
  /\ budget' = budget - 1
  /\ UNCHANGED << isAuthLoading, authReady, text, currentDocId, currentDocName,
                  currentPage, sources, dbSources, calls, isInitialLoad >>
  /\ ReaderCommit(NoLoad)

\* onSnapshot(sourcesRef) of the signed-in user
readerSources ==
  /\ inReader /\ user # None
  /\ sources' = IF user = Uid THEN dbSources ELSE {}
  /\ sources' # sources
  /\ UNCHANGED << user, isAuthLoading, authReady, text, currentDocId, currentDocName,
                  currentPage, dbSources, calls, isInitialLoad, budget >>
  /\ ReaderCommit(NoLoad)

\* the IntersectionObserver callback with one entry for page i
readerObserver(i, ratio) ==
  /\ inReader /\ ~isAuthLoading /\ observing /\ budget > 0
  /\ i \in 0..(numPages - 1)
  /\ currentPage' = IF ~isInitialLoad /\ isIntersectingAt(ratio) THEN i ELSE currentPage
  /\ budget' = IF currentPage' = currentPage THEN budget ELSE budget - 1
  /\ UNCHANGED << user, isAuthLoading, authReady, text, currentDocId, currentDocName,
                  sources, dbSources, calls, isInitialLoad, observing, timers >>
  /\ ls' = persistEffect
  /\ g' = [g EXCEPT !.event = Event(i, ratio)]

\* the onClick of a library item
readerLoad(d) ==
  /\ inReader /\ ~isAuthLoading /\ user = Uid /\ budget > 0
  /\ d \in sources
  /\ text' = Content(d)
  /\ currentDocName' = Name(d)
  /\ currentDocId' = d
  /\ isInitialLoad' = TRUE
  /\ budget' = budget - 1
  /\ UNCHANGED << user, isAuthLoading, authReady, currentPage, sources, dbSources,
                  calls >>
  /\ ReaderCommit(Load("library", restoreTarget(ls', pagesLength(text'))))

\* handleFileUpload up to the first await
readerUpload ==
  /\ inReader /\ ~isAuthLoading /\ user = Uid /\ budget > 0
  /\ "U" \notin dbSources
  /\ Cardinality(calls) < MaxCalls
  /\ calls' = calls \cup { Call("upload", "U", None, 0) }
  /\ budget' = budget - 1
  /\ UNCHANGED << uiVars, dbSources, timers, lsVars, g >>

\* addDoc settles: the uploaded document becomes the current one, at page 0
readerUploadDone(c, ok) ==
  /\ inReader /\ c \in calls /\ c.op = "upload"
  /\ calls' = calls \ {c}
  /\ UNCHANGED << user, isAuthLoading, authReady, sources, isInitialLoad, budget >>
  /\ IF ok
     THEN /\ dbSources' = dbSources \cup { c.docId }
          /\ text' = Content(c.docId)
          /\ currentDocName' = Name(c.docId)
          /\ currentDocId' = c.docId
          /\ currentPage' = 0
          /\ ReaderCommit(Load("upload", 0))
     ELSE /\ UNCHANGED << dbSources, text, currentDocName, currentDocId, currentPage >>
          /\ ReaderCommit(NoLoad)

\* the delete button of a library item: deleteDoc, nothing else
readerDelete(d) ==
  /\ inReader /\ ~isAuthLoading /\ user = Uid /\ budget > 0
  /\ d \in sources /\ d \in dbSources
  /\ dbSources' = dbSources \ {d}
  /\ budget' = budget - 1
  /\ UNCHANGED << uiVars, calls, timers, lsVars, g >>

\* the restore timer fires: scrollToPage(safePage), isInitialLoad cleared
readerRestoreFires ==
  /\ inReader
  /\ \E i \in 1..Len(timers) : timers[i].left = 0
  /\ LET t == timers[dueIndex]
     IN /\ t.kind = "scrollRestore"
        /\ timers' = without(timers, dueIndex)
        /\ g' = IF t.cur THEN [g EXCEPT !.scrolls = @ + 1, !.scrolledTo = t.page] ELSE g
  /\ isInitialLoad' = FALSE
  /\ UNCHANGED << uiVars, dbSources, calls, ls, observing, budget >>

NextReader ==
  \/ \E u \in {None, Anon, Uid} : readerAuth(u)
  \/ readerReload
  \/ handleGoogleSignIn
  \/ readerSignOut
  \/ readerSources
  \/ \E i \in 0..(numPages - 1), r \in Ratios : readerObserver(i, r)
  \/ \E d \in DocIds : readerLoad(d)
  \/ readerUpload
  \/ \E c \in calls, ok \in BOOLEAN : readerUploadDone(c, ok)
  \/ \E d \in DocIds : readerDelete(d)
  \/ readerRestoreFires
  \/ Tick

SpecReader == InitReader /\ [][NextReader]_vars

\* the reader with its timers and the responses of the store and of the
\* authentication service eventually delivered; the reader's own actions
\* (selecting, uploading, reloading) are under no obligation
SpecReaderFair ==
  /\ SpecReader
  /\ WF_vars(Tick)
  /\ WF_vars(readerRestoreFires)
  /\ WF_vars(\E u \in {None, Anon, Uid} : readerAuth(u))
  /\ WF_vars(readerSources)
  /\ WF_vars(\E c \in calls, ok \in BOOLEAN : readerUploadDone(c, ok))

\* =========================================================================
\* The rate-limited AI call of revision "local" (src/src/App.jsx 846-1060)
\* =========================================================================
AI_CALL_DELAY == 1500
COUNTDOWN_INTERVAL == 100

\* Date.now() when the page is opened: any time later than AI_CALL_DELAY
PageOpened == 2000

\* Math.ceil(a / b) for positive b
ceilDiv(a, b) == (a + b - 1) \div b

\* a step of the rate-limited AI call
inLimiter == rev = "limiter" /\ UNCHANGED << rev, pgVars, appVars, apiKey >>

\* the rate limit check that never refuses
rateLimited_off(t, last) == FALSE

\* timeSinceLastCall < AI_CALL_DELAY
rateLimited(t, last) == t - last < AI_CALL_DELAY

\* the chat input, the send button and the translate button are enabled
aiControlsEnabled == ~isAiLoading /\ nextCallAvailable = 0

\* callAi up to its first await
localCallAi ==
  IF rateLimited(now, lastAiCall)
  THEN /\ nextCallAvailable' = ceilDiv(AI_CALL_DELAY - (now - lastAiCall), 1000)
       /\ aiLog' = [aiLog EXCEPT !.at = now, !.ret = "wait"]
       /\ UNCHANGED << lastAiCall, isAiLoading, aiCalls >>
  ELSE IF apiKey = ""
  THEN /\ aiLog' = [aiLog EXCEPT !.at = now, !.ret = "nokey"]
       /\ UNCHANGED << lastAiCall, isAiLoading, aiCalls, nextCallAvailable >>
  ELSE IF text = <<>>
  THEN /\ aiLog' = [aiLog EXCEPT !.at = now, !.ret = "nodoc"]
       /\ UNCHANGED << lastAiCall, isAiLoading, aiCalls, nextCallAvailable >>
  ELSE /\ isAiLoading' = TRUE
       /\ lastAiCall' = now
       /\ aiCalls' = << [NoAiCall EXCEPT !.phase = "fetch", !.sent = 1] >>
       /\ aiLog' = [at |-> now, sent |-> now, ret |-> "pending"]
       /\ UNCHANGED nextCallAvailable

\* the page is opened; the build has an API key or none, a document is
\* loaded or none
InitLimiter ==
  /\ rev = "limiter"
  /\ pgText = <<>> /\ pgSize = WORDS_PER_PAGE /\ pgPages = <<>> /\ pgDone = FALSE
  /\ user = None /\ isAuthLoading = FALSE /\ authReady = TRUE
  /\ text \in { <<>>, CONTENT_U }
  /\ currentDocId = None /\ currentDocName = UNTITLED /\ currentPage = 0
  /\ sources = {} /\ lastPosition = NoPos /\ isRestoring = FALSE
  /\ posListener = [active |-> FALSE, isRestoring |-> TRUE, currentDocId |-> None]
  /\ posSnaps = <<>> /\ timers = <<>> /\ calls = {} /\ writes = <<>>
  /\ ls = NoStorage /\ isInitialLoad = TRUE /\ observing = FALSE
  /\ dbSources = {} /\ dbPos = NoPos /\ budget = 0 /\ g = NoHistory
  /\ now = PageOpened
  /\ lastAiCall = 0
  /\ nextCallAvailable = 0
  /\ isAiLoading = FALSE
  /\ apiKey \in { "", "key" }
  /\ aiCalls = <<>>
  /\ aiLog = NoAiLog

\* handleChat: Enter in the chat input or the send button
localHandleChat ==
  /\ inLimiter /\ aiControlsEnabled
  /\ text # <<>>
  /\ UNCHANGED now
  /\ localCallAi

\* handleTranslate with a selection: the translate button
localHandleTranslate ==
  /\ inLimiter /\ aiControlsEnabled
  /\ UNCHANGED now
  /\ localCallAi

\* the fetch of callAi settles and the finally block runs
localAiDone(ok) ==
  /\ inLimiter /\ aiCalls # <<>>
  /\ aiCalls' = <<>>
  /\ isAiLoading' = FALSE
  /\ aiLog' = [aiLog EXCEPT !.ret = IF ok THEN "text" ELSE "error"]
  /\ UNCHANGED << now, lastAiCall, nextCallAvailable >>

\* COUNTDOWN_INTERVAL ms pass; the countdown interval fires while it runs
localAiTick ==
  /\ inLimiter /\ now < PageOpened + MaxNow
  /\ now' = now + COUNTDOWN_INTERVAL
  /\ nextCallAvailable' = IF nextCallAvailable > 0 THEN nextCallAvailable - 1 ELSE 0
  /\ UNCHANGED << lastAiCall, isAiLoading, aiCalls, aiLog >>

NextLimiter ==
  \/ localHandleChat
  \/ localHandleTranslate
  \/ \E ok \in BOOLEAN : localAiDone(ok)
  \/ localAiTick

SpecLimiter == InitLimiter /\ [][NextLimiter]_vars

\* =========================================================================
\* The retrying AI call of revision "reader" (src/unnamed/part_000 208-321)
\* =========================================================================
MAX_RETRIES == 5

\* fetch rejected: no response at all
NetworkError == 0

\* the HTTP statuses of the responses
Statuses == {200, 403, 429, 503}

\* the slots of the callAi invocations that run at the same time
Slots == 1..MaxAiCalls

\* Math.pow(2, retryCount) * 1000
retryDelay(retryCount) == (2 ^ retryCount) * 1000

\* one more retry than the code allows
canRetry_six(retryCount) == retryCount < MAX_RETRIES + 1

\* retryCount < 5
canRetry(retryCount) == retryCount < MAX_RETRIES

\* a step of the retrying AI call
inRetry == rev = "retry" /\ UNCHANGED << rev, pgVars, appVars, now, lastAiCall,
                                        nextCallAvailable, apiKey >>

\* an invocation is running in slot i
running(i) == aiCalls[i].phase # "idle"

\* callAi up to the first await of fetchContent(0), in the first free slot
readerCallAi ==
  /\ \E i \in Slots : ~running(i)
  /\ LET i == CHOOSE k \in Slots : ~running(k) /\ \A j \in 1..(k - 1) : running(j)
     IN aiCalls' = [aiCalls EXCEPT ![i] = [NoAiCall EXCEPT !.phase = "fetch", !.sent = 1]]
  /\ isAiLoading' = TRUE
  /\ UNCHANGED aiLog

\* a signed-in or signed-out reader with a document loaded or none
InitRetry ==
  /\ rev = "retry"
  /\ pgText = <<>> /\ pgSize = WORDS_PER_PAGE /\ pgPages = <<>> /\ pgDone = FALSE
  /\ user \in { None, Uid } /\ isAuthLoading = FALSE /\ authReady = TRUE
  /\ text \in { <<>>, CONTENT_U }
  /\ currentDocId = None /\ currentDocName = UNTITLED /\ currentPage = 0
  /\ sources = {} /\ lastPosition = NoPos /\ isRestoring = FALSE
  /\ posListener = [active |-> FALSE, isRestoring |-> TRUE, currentDocId |-> None]
  /\ posSnaps = <<>> /\ timers = <<>> /\ calls = {} /\ writes = <<>>
  /\ ls = NoStorage /\ isInitialLoad = FALSE /\ observing = FALSE
  /\ dbSources = {} /\ dbPos = NoPos /\ budget = 0 /\ g = NoHistory
  /\ now = 0 /\ lastAiCall = 0 /\ nextCallAvailable = 0 /\ apiKey = "key"
  /\ isAiLoading = FALSE
  /\ aiCalls = [i \in Slots |-> NoAiCall]
  /\ aiLog = NoAiLog

\* handleInsight(type)
readerHandleInsight ==
  /\ inRetry /\ user # None
  /\ readerCallAi

\* handleChat with a question typed
readerHandleChat ==
  /\ inRetry /\ ~isAiLoading /\ text # <<>> /\ user # None
  /\ readerCallAi

\* handleTranslate with a selection
readerHandleTranslate ==
  /\ inRetry
  /\ readerCallAi

\* the fetch of fetchContent(retryCount) in slot i settles: with a response
\* of the given status, whose body parses (json) or not, or with a rejection
fetchContent(i, status, json) ==
  /\ inRetry /\ aiCalls[i].phase = "fetch"
  /\ LET c == aiCalls[i]
         retryable == status = 429 \/ status >= 500
         ok == status \in 200..299
         answered == ok /\ json
         retries == IF status = NetworkError \/ ok THEN canRetry(c.retryCount)
                    ELSE (retryable /\ canRetry(c.retryCount)) \/ canRetry(c.retryCount)
     IN IF answered \/ ~retries
        THEN /\ aiCalls' = [aiCalls EXCEPT ![i] = NoAiCall]
             /\ isAiLoading' = FALSE
             /\ aiLog' = [at |-> -1, sent |-> c.sent,
                          ret |-> IF answered THEN "text" ELSE "failed"]
        ELSE /\ aiCalls' = [aiCalls EXCEPT ![i] = [c EXCEPT !.phase = "wait",
                                                            !.left = retryDelay(c.retryCount),
                                                            !.status = status]]
             /\ UNCHANGED << isAiLoading, aiLog >>

\* the delay of slot i is over: fetchContent(retryCount + 1)
retryFires(i) ==
  /\ inRetry /\ aiCalls[i].phase = "wait" /\ aiCalls[i].left = 0
  /\ aiCalls' = [aiCalls EXCEPT ![i] = [@ EXCEPT !.phase = "fetch", !.retryCount = @ + 1,
                                                 !.sent = @ + 1, !.status = 0]]
  /\ UNCHANGED << isAiLoading, aiLog >>

\* the invocations that wait for a retry
waiting == { i \in Slots : aiCalls[i].phase = "wait" }

\* time passes until the next retry is due
retryTick ==
  /\ inRetry /\ waiting # {}
  /\ \A i \in waiting : aiCalls[i].left > 0
  /\ LET ms == CHOOSE m \in { aiCalls[i].left : i \in waiting } :
                 \A i \in waiting : m <= aiCalls[i].left
     IN aiCalls' = [i \in Slots |-> IF i \in waiting
                                    THEN [aiCalls[i] EXCEPT !.left = @ - ms]
                                    ELSE aiCalls[i]]
  /\ UNCHANGED << isAiLoading, aiLog >>

NextRetry ==
  \/ readerHandleChat
  \/ readerHandleInsight
  \/ readerHandleTranslate
  \/ \E i \in Slots, status \in Statuses \cup { NetworkError }, json \in BOOLEAN :
       fetchContent(i, status, json)
  \/ \E i \in Slots : retryFires(i)
  \/ retryTick

SpecRetry == InitRetry /\ [][NextRetry]_vars

\* =========================================================================
\* Claims
\* =========================================================================
\* the non-empty tokens of a string split on runs of whitespace
Words(s) == filterBoolean(split(s))

\* the words of all pages, in page order
RECURSIVE PageWords(_)
PageWords(ps) == IF ps = <<>> THEN <<>> ELSE Words(Head(ps)) \o PageWords(Tail(ps))

NoWords(t) == \A i \in 1..Len(t) : t[i] \in WS

Ceil(w, n) == (w + n - 1) \div n

\* C1 as stated: for every text, the empty and the all-whitespace ones
\* included, the words of the pages in page order are the words of the text.
C1_EveryText == pgDone => PageWords(pgPages) = Words(pgText)

\* C1 amended: for every text holding at least one word and every page size
\* N > 0, the words of all pages in page order are exactly the non-empty
\* tokens of the text split on runs of whitespace.
C1_WordsPreserved ==
  (pgDone /\ ~NoWords(pgText)) => PageWords(pgPages) = Words(pgText)

C1_Witness ==
  /\ pgDone
  /\ Len(pgPages) >= 2
  /\ pgText[1] \in WS
  /\ \E i \in 1..(Len(pgText) - 1) : pgText[i] \in WS /\ pgText[i + 1] \in WS

\* C2: the page sequence is never empty; a text without words gives exactly
\* one page, the placeholder message, and any other text at least one page.
C2_NeverZeroPages ==
  pgDone => /\ Len(pgPages) >= 1
            /\ NoWords(pgText) => pgPages = << VAULT_EMPTY >>

C2_Witness ==
  pgDone /\ pgText # <<>> /\ NoWords(pgText) /\ pgPages = << VAULT_EMPTY >>

\* C3: a text of W > 0 words gives exactly ceil(W/N) pages, every page but
\* the last of exactly N words and the last of W - N*(ceil(W/N) - 1) words.
C3_PageSizes ==
  LET W == Len(Words(pgText))
      P == Len(pgPages)
  IN (pgDone /\ W > 0) =>
       /\ P = Ceil(W, pgSize)
       /\ \A k \in 1..(P - 1) : Len(Words(pgPages[k])) = pgSize
       /\ Len(Words(pgPages[P])) = W - pgSize * (Ceil(W, pgSize) - 1)
       /\ Len(Words(pgPages[P])) \in 1..pgSize

\* 700 words at 275 words per page: three pages of 275, 275 and 150 words
C3_Witness ==
  /\ pgDone
  /\ Len(Words(pgText)) = 700
  /\ pgSize = WORDS_PER_PAGE
  /\ [k \in 1..Len(pgPages) |-> Len(Words(pgPages[k]))] = << 275, 275, 150 >>

\* the session is Live: a user is signed in, a document is loaded and the
\* restore of the session is over
Live == user # None /\ currentDocId # None /\ ~isRestoring

\* C5: once another document is active no remote position write for the
\* previous document is issued: every write that is issued carries the id of
\* the document that is active when it is issued.
C5_NoWriteForPreviousDoc ==
  [][\A i \in 1..Len(writes') : i > Len(writes) => writes'[i].docId = currentDocId']_vars

\* C5 happens: a document switch cleared a pending write of the previous
\* document and a write for the new document was issued afterwards
C5_Witness ==
  g.cancelled /\ g.written = 1 /\ g.lastWrite.docId = currentDocId

\* C6: while Live, after a burst of page changes none of which let the quiet
\* interval elapse, either nothing is written yet and exactly one write is
\* scheduled, for the last page and one quiet interval after the last change,
\* or exactly that one write was issued, one quiet interval after the last
\* change and with the last page.
C6_OneWritePerBurst ==
  (Live /\ g.change = "page") =>
    LET pending == saveTimers(timers)
    IN \/ /\ g.written = 0
          /\ Len(pending) = 1
          /\ pending[1].left = AUTOSAVE_DELAY - g.quiet
          /\ pending[1].page = currentPage
          /\ pending[1].docId = currentDocId
       \/ /\ g.written = 1
          /\ pending = <<>>
          /\ g.lastWrite.quiet = AUTOSAVE_DELAY
          /\ g.lastWrite.page = currentPage
          /\ g.lastWrite.docId = currentDocId

\* C6 happens: two page changes, the second while the write of the first was
\* still scheduled, and the write of the burst was issued
C6_Witness ==
  Live /\ g.change = "page" /\ g.burst = 2 /\ g.written = 1

\* C7: at most one remote position write per document is in flight: no two
\* setDoc calls awaiting the store carry the same document id.
C7_OneInFlightPerDoc ==
  \A i, j \in 1..Len(writes) : i # j => writes[i].docId # writes[j].docId

\* C9: a document load issues one programmatic scroll command, to the restore
\* target of the load: never a second one, and none to another page.
C9_OneScrollPerLoad ==
  (g.load # "none" /\ g.scrolls > 0) => (g.scrolls = 1 /\ g.scrolledTo = g.target)

\* C4: in every reachable state the current page index is a page of the
\* loaded text: 0 <= currentPage <= pages.length - 1.
C4_PageInRange == currentPage \in 0..(numPages - 1)

\* a document was loaded and a scroll command of that load is still to be
\* issued
Restoring ==
  g.load # "none" /\ \E i \in 1..Len(timers) : isScroll(timers[i]) /\ timers[i].cur

\* C8: while Restoring, a step that loads no document (a viewport event)
\* changes neither the current page index nor the locally persisted one.
C8_NoViewportUpdateWhileRestoring ==
  [][(Restoring /\ text' = text /\ currentDocId' = currentDocId)
       => (currentPage' = currentPage /\ ls'.page = ls.page)]_vars

\* the restore timer that the step has started, if any: a render added one,
\* or the page was opened again and the mount started one
startedRestore ==
  IF /\ Len(timers') > 0
     /\ timers'[Len(timers')].kind = "scrollRestore"
     /\ timers'[Len(timers')].left = RESTORE_SCROLL_DELAY
     /\ (Len(timers') = Len(timers) + 1 \/ (isAuthLoading' /\ budget' < budget))
  THEN { timers'[Len(timers')] } ELSE {}

C11_TargetClamped ==
  g.load \in {"restore", "resume", "start"} => g.target \in 0..(g.pages - 1)

\* the restore timers among tm
restoreTimers(tm) == SelectSeq(tm, LAMBDA t : t.kind = "scrollRestore")

\* C12: the saved remote position is applied at most once, at session start:
\* once the session is Live a position snapshot starts no reload of a
\* document, and no reload that settles replaces the text or the document id
\* or schedules a scroll command.
C12_PositionAppliedOnce ==
  [][Live =>
       /\ \A c \in calls' : c.op = "getDoc" => c \in calls
       /\ (\E c \in calls : c.op = "getDoc" /\ c \notin calls')
            => /\ text' = text
               /\ currentDocId' = currentDocId
               /\ Len(restoreTimers(timers')) <= Len(restoreTimers(timers))]_vars

\* the reader revision tracks the viewport: the reader is rendered, the
\* observer holds the page elements and the restore of the load is over
ReaderLive == ~isAuthLoading /\ observing /\ ~isInitialLoad

\* C13: while Live, a viewport event for a page that is visible with a ratio
\* of at least 0.5 makes that page the current page in the same step, and
\* any other viewport event leaves the current page unchanged.
C13_DominantPageIsCurrent ==
  [][(ReaderLive /\ g'.event # g.event) =>
       currentPage' = IF 2 * g'.event.ratio >= 100 THEN g'.event.page ELSE currentPage]_vars

\* C13 happens: Live on a page above 0 that an event made current, and the
\* last event, for another page seen below one half, was left without effect
C13_Witness ==
  /\ ReaderLive /\ g.event.any
  /\ g.event.ratio \in 1..49 /\ g.event.page # currentPage /\ currentPage > 0

inRange(r) == r.page \in 0..(pagesLength(Content(r.docId)) - 1)

\* C15: every position record written carries a page index within the page
\* range of the document whose id it carries, also on the first write after a
\* document switch.
C15_WrittenPageInRange ==
  \A i \in 1..Len(writes) : inRange(writes[i])

\* the scroll timers of the current load among tm
currentScrolls(tm) == SelectSeq(tm, LAMBDA t : isScroll(t) /\ t.cur)

\* C16: when the existence check of the document named by the position saved
\* at the last visit answers that the document is gone, the position is
\* discarded: the reader holds no text and no document id afterwards and no
\* scroll command of the start is left to run.
C16_MissingDocumentDiscarded ==
  [][\A c \in calls :
       (/\ g.load = "start" /\ authReady'
        /\ c.op = "getDoc" /\ c \notin calls' /\ c.docId \notin dbSources)
       => /\ text' = <<>>
          /\ currentDocId' = None
          /\ currentScrolls(timers') = <<>>]_vars

\* C18: the session never leaves Restoring before the scroll command of the
\* restore has been issued: at the step that clears the restoring flag no
\* scroll of that restore is still waiting for its timer.
C18_ScrollBeforeLive ==
  [][(isRestoring /\ ~isRestoring') =>
       \A i \in 1..Len(timers') : ~(timers'[i].kind = "scrollRestore" /\ timers'[i].cur)]_vars

\* C19: every document load puts the session into Restoring: a step that
\* makes another document the current one ends with the restoring state
\* set, so that no viewport event for the new document is processed before.
C19_LoadEntersRestoring ==
  [][(currentDocId' # currentDocId /\ currentDocId' # None) => isInitialLoad']_vars

\* C20: a failed remote position write is swallowed: the rollback it causes
\* leaves the loaded text and the document id as they are.
C20_FailedWriteSwallowed ==
  [][(g.rollback \in calls /\ g.rollback \notin calls' /\ user' = user) =>
       (text' = text /\ currentDocId' = currentDocId)]_vars

\* C21: a remote position write is scheduled and fired only while a user is
\* signed in, a document is loaded and the session is not Restoring: after
\* every step a pending auto-save timer implies that state, and a step that
\* issues a write starts in it.
C21_WriteOnlyWhenLive ==
  [][/\ saveTimers(timers') # <<>> => Live'
     /\ Len(writes') > Len(writes) => Live]_vars

\* C21 happens: a remote write is in flight for the loaded document
C21_Witness ==
  rev = "sync" /\ Live /\ writes # <<>> /\ writes[1].docId = currentDocId

\* C22: every session that enters Restoring eventually reaches Live: with
\* timers and store responses delivered, a set restoring flag is eventually
\* cleared.
C22_RestoringEnds ==
  isInitialLoad ~> ~isInitialLoad

\* a step is an invocation of callAi
aiInvoked == aiLog' # aiLog /\ aiLog'.ret \in {"wait", "nokey", "nodoc", "pending"}

\* C23: any two outbound requests of the rate-limited callAi are at least
\* 1500 ms apart: an invocation less than 1500 ms after the last accepted
\* call sends no request, returns the wait message and leaves lastAiCall
\* unchanged.
C23_RequestsSpaced ==
  [][/\ (aiLog'.sent # aiLog.sent /\ aiLog.sent >= 0) => aiLog'.sent - aiLog.sent >= 1500
     /\ (aiInvoked /\ aiLog.sent >= 0 /\ now - aiLog.sent < 1500)
          => /\ aiLog'.sent = aiLog.sent
             /\ aiCalls' = aiCalls
             /\ aiLog'.ret = "wait"
             /\ lastAiCall' = lastAiCall]_vars

\* C23 happens: a call made too early after an accepted one was refused
C23_Witness ==
  /\ rev = "limiter" /\ aiLog.sent >= 0 /\ aiLog.ret = "wait"
  /\ aiLog.at - aiLog.sent \in 1..1499

\* C25: after handleSignOut has succeeded and the effects of its render have
\* run, the key novelQuestCurrentDocId is absent or empty.
C25_SignOutClearsDocId ==
  [][(rev = "local" /\ authReady /\ authReady' /\ user # None /\ user' = None)
       => storedDocId(ls') = None]_vars

\* C26: a document fetch started for one document that completes while
\* another document is the current one replaces neither the text nor the
\* name nor the document id.
C26_StaleFetchIgnored ==
  [][\A c \in calls :
       (/\ c.op = "getDoc" /\ c \notin calls' /\ authReady'
        /\ currentDocId # None /\ c.docId # currentDocId)
       => /\ text' = text
          /\ currentDocName' = currentDocName
          /\ currentDocId' = currentDocId]_vars

\* C27: whenever the reader's page elements are rendered, that is once
\* authentication loading has finished, the intersection observer is
\* subscribed to them.
C27_ObserverSubscribed ==
  (rev = "reader" /\ ~isAuthLoading) => observing

\* C28: one invocation of the retrying callAi sends at most 6 requests, waits
\* 2^k seconds before retry k + 1 for k = 0..4, and ends by returning a
\* string: whatever the sixth request meets, the invocation returns.
C28_AtMostSixRequests ==
  [][\A i \in Slots :
       /\ aiCalls'[i].sent <= 6
       /\ (aiCalls[i].phase = "fetch" /\ aiCalls'[i].phase = "wait")
            => /\ aiCalls[i].retryCount \in 0..4
               /\ aiCalls'[i].left = (2 ^ aiCalls[i].retryCount) * 1000
       /\ (aiCalls[i].phase = "fetch" /\ aiCalls[i].sent = 6 /\ aiCalls'[i] # aiCalls[i])
            => aiCalls'[i].phase = "idle"
       /\ (aiCalls[i].phase # "idle" /\ aiCalls'[i].phase = "idle")
            => aiLog'.ret \in {"text", "failed"} /\ aiLog'.sent = aiCalls[i].sent]_vars

\* C28 happens: an invocation gave up after its sixth request
C28_Witness ==
  rev = "retry" /\ aiLog.ret = "failed" /\ aiLog.sent = 6

\* C29: an error response with a status other than 429 and below 500 is not
\* retried: no invocation waits for a retry after such a response.
C29_OnlyRetryableRetried ==
  \A i \in DOMAIN aiCalls :
    aiCalls[i].phase = "wait" => ~(aiCalls[i].status \in 400..499 /\ aiCalls[i].status # 429)

\* C30: isAiLoading is true in every state in which a callAi invocation is
\* running.
C30_LoadingWhileInFlight ==
  (\E i \in DOMAIN aiCalls : aiCalls[i].phase # "idle") => isAiLoading

====
